---- MODULE Spec2Model ----
(***************************************************************************)
(* KerasML/score.py: the two entry points of a hosted Keras model.         *)
(*   init()        looks up the path of 'model.h5', loads it and stores    *)
(*                 the predictor in the module global `model`.             *)
(*   run(raw_data) json.loads -> ['data'] -> np.asarray -> model.predict.  *)
(* A raw payload is a sequence of JSON tokens; JSON values, ndarrays and   *)
(* call outcomes are tagged records.                                       *)
(***************************************************************************)
EXTENDS Integers, Sequences, FiniteSets, TLC

\* ------------------------------------------------------------------ bounds
MaxThreads == 2
MaxInits == 1

Threads == 1..MaxThreads

\* ------------------------------------------------------------ JSON values
Num(n) == [t |-> "num", v |-> <<n>>]
Str(s) == [t |-> "str", v |-> <<s>>]
Null == [t |-> "null", v |-> <<>>]
Arr(items) == [t |-> "arr", v |-> items]
Obj(members) == [t |-> "obj", v |-> members]

\* string literals (with their quotes) and the text they denote
StrVal ==
  ("\"data\"" :> "data") @@ ("\"x\"" :> "x") @@ ("\"a\"" :> "a")
    @@ ("\"not json\"" :> "not json")
StrTok == DOMAIN StrVal

\* number literals and the integers they denote
NumVal == ("1" :> 1) @@ ("2" :> 2) @@ ("3" :> 3)
NumTok == DOMAIN NumVal

\* ----------------------------------------------------------- json.loads
ParseOk(val, rest) == [ok |-> TRUE, val |-> val, rest |-> rest]
ParseFail == [ok |-> FALSE, val |-> Null, rest |-> <<>>]

RECURSIVE ParseValue(_), ParseElements(_, _), ParseMembers(_, _)

\* one JSON value at the head of the token sequence s
ParseValue(s) ==
  IF s = <<>> THEN ParseFail
  ELSE LET h == Head(s)
           r == Tail(s)
       IN  IF h \in NumTok THEN ParseOk(Num(NumVal[h]), r)
           ELSE IF h \in StrTok THEN ParseOk(Str(StrVal[h]), r)
           ELSE IF h = "null" THEN ParseOk(Null, r)
           ELSE IF h = "["
             THEN IF r # <<>> /\ Head(r) = "]"
                    THEN ParseOk(Arr(<<>>), Tail(r))
                    ELSE ParseElements(r, <<>>)
           ELSE IF h = "{"
             THEN IF r # <<>> /\ Head(r) = "}"
                    THEN ParseOk(Obj(<<>>), Tail(r))
                    ELSE ParseMembers(r, <<>>)
           ELSE ParseFail

\* the elements of an array after "[", up to and including "]"
ParseElements(s, acc) ==
  LET e == ParseValue(s)
  IN  IF ~e.ok \/ e.rest = <<>> THEN ParseFail
      ELSE IF Head(e.rest) = ","
        THEN ParseElements(Tail(e.rest), Append(acc, e.val))
      ELSE IF Head(e.rest) = "]"
        THEN ParseOk(Arr(Append(acc, e.val)), Tail(e.rest))
      ELSE ParseFail

\* the members of an object after "{", up to and including "}"
ParseMembers(s, acc) ==
  IF Len(s) < 2 \/ Head(s) \notin StrTok \/ s[2] # ":" THEN ParseFail
  ELSE LET e == ParseValue(SubSeq(s, 3, Len(s)))
           m == [key |-> StrVal[Head(s)], val |-> e.val]
       IN  IF ~e.ok \/ e.rest = <<>> THEN ParseFail
           ELSE IF Head(e.rest) = ","
             THEN ParseMembers(Tail(e.rest), Append(acc, m))
           ELSE IF Head(e.rest) = "}"
             THEN ParseOk(Obj(Append(acc, m)), Tail(e.rest))
           ELSE ParseFail

\* a parser that gives None for text it cannot parse instead of raising
json_loads_lenient(raw) ==
  LET p == ParseValue(raw)
  IN  IF p.ok /\ p.rest = <<>> THEN [ok |-> TRUE, val |-> p.val]
      ELSE [ok |-> TRUE, val |-> Null]

\* json.loads(raw): a value, or a failure (also when text follows the value)
json_loads(raw) ==
  LET p == ParseValue(raw)
  IN  IF p.ok /\ p.rest = <<>> THEN [ok |-> TRUE, val |-> p.val]
      ELSE [ok |-> FALSE, val |-> Null]

\* <value>.get('data'): None for a dict without the key instead of a KeyError
SubscriptGet(val, key) ==
  IF val.t # "obj" THEN [ok |-> FALSE, val |-> Null]
  ELSE LET hits == {i \in DOMAIN val.v : val.v[i].key = key}
       IN  IF hits = {} THEN [ok |-> TRUE, val |-> Null]
           ELSE [ok |-> TRUE,
                 val |-> val.v[CHOOSE i \in hits : \A j \in hits : j <= i].val]

\* ------------------------------------------------------ <value>['data']
\* a dict gives the value of its last member named key (KeyError without
\* one); any other value cannot be indexed by a string (TypeError)
Subscript(val, key) ==
  IF val.t # "obj" THEN [ok |-> FALSE, val |-> Null]
  ELSE LET hits == {i \in DOMAIN val.v : val.v[i].key = key}
       IN  IF hits = {} THEN [ok |-> FALSE, val |-> Null]
           ELSE [ok |-> TRUE,
                 val |-> val.v[CHOOSE i \in hits : \A j \in hits : j <= i].val]

\* ------------------------------------------------------------- np.asarray
ndarray(dtype, shape, items) == [dtype |-> dtype, shape |-> shape, items |-> items]
NoArray == ndarray("none", <<>>, <<>>)

\* the longest sequence every member of the set ss starts with
CommonPrefix(ss) ==
  LET isPrefix(n) == \A a \in ss, b \in ss :
                        Len(a) >= n /\ Len(b) >= n /\ SubSeq(a, 1, n) = SubSeq(b, 1, n)
      one == CHOOSE a \in ss : TRUE
      n == CHOOSE k \in 0..Len(one) :
             isPrefix(k) /\ \A j \in 0..Len(one) : isPrefix(j) => j <= k
  IN  SubSeq(one, 1, n)

RECURSIVE Dims(_), ItemsAt(_, _), ConcatItems(_, _)

\* the dimensions numpy discovers: a nesting level is a dimension as long as
\* all the lists at that level have the same length
Dims(v) ==
  IF v.t # "arr" THEN <<>>
  ELSE IF v.v = <<>> THEN <<0>>
  ELSE <<Len(v.v)>> \o CommonPrefix({Dims(v.v[i]) : i \in DOMAIN v.v})

\* the elements found d levels down, in row-major order
ItemsAt(v, d) == IF d = 0 THEN <<v>> ELSE ConcatItems(v.v, d - 1)

ConcatItems(vs, d) ==
  IF vs = <<>> THEN <<>> ELSE ItemsAt(Head(vs), d) \o ConcatItems(Tail(vs), d)

NumText(n) == CHOOSE k \in NumTok : NumVal[k] = n

\* the element type numpy picks for the given leaves
DType(items) ==
  IF items = <<>> THEN "float"
  ELSE IF \A i \in DOMAIN items : items[i].t = "num" THEN "int"
  ELSE IF \A i \in DOMAIN items : items[i].t \in {"num", "str"} THEN "str"
  ELSE "object"

\* an element converted to the array's element type
Coerce(dtype, x) ==
  IF dtype = "str" /\ x.t = "num" THEN Str(NumText(x.v[1])) ELSE x

\* a conversion that validates: it raises unless the result is a numeric array
asarray_validating(v, numpy) ==
  LET dims == Dims(v)
      items == ItemsAt(v, Len(dims))
      dtype == DType(items)
  IN  IF dtype \in {"int", "float"} /\ dims # <<>>
           /\ \A i \in DOMAIN items : items[i].t = "num"
        THEN [ok |-> TRUE, arr |-> ndarray(dtype, dims, items)]
        ELSE [ok |-> FALSE, arr |-> NoArray]

\* np.asarray(v). No value is rejected for its type: a string, a dict or None
\* becomes a 0-d array. A ragged nesting (lists left over below the discovered
\* dimensions) gives an array of list objects on a legacy numpy build and a
\* ValueError on a strict one.
asarray(v, numpy) ==
  LET dims == Dims(v)
      items == ItemsAt(v, Len(dims))
      ragged == \E i \in DOMAIN items : items[i].t = "arr"
      dtype == DType(items)
  IN  IF ragged
        THEN IF numpy = "strict" THEN [ok |-> FALSE, arr |-> NoArray]
             ELSE [ok |-> TRUE, arr |-> ndarray("object", dims, items)]
        ELSE [ok |-> TRUE,
              arr |-> ndarray(dtype, dims,
                              [i \in DOMAIN items |-> Coerce(dtype, items[i])])]

\* ---------------------------------------------------------- the predictor
Absent == [kind |-> "absent", features |-> 0, w |-> 0]
Predictor(f, w) == [kind |-> "predictor", features |-> f, w |-> w]
\* the artifacts 'model.h5' may hold: the feature count a model expects and
\* the weight that stands for what it has learnt
Predictors == {Predictor(3, 1), Predictor(2, 3)}

RECURSIVE SumItems(_)
SumItems(xs) == IF xs = <<>> THEN 0 ELSE Head(xs).v[1] + SumItems(Tail(xs))

\* model.predict(x): one label 0..9 per row of a numeric (rows, features)
\* batch; the predictor rejects every other array
predict(m, x) ==
  IF /\ m.kind = "predictor"
     /\ x.dtype \in {"int", "float"}
     /\ Len(x.shape) = 2
     /\ x.shape[1] >= 1
     /\ x.shape[2] = m.features
    THEN [ok |-> TRUE,
          value |-> [r \in 1..x.shape[1] |->
                       (m.w * SumItems(SubSeq(x.items, (r - 1) * m.features + 1,
                                              r * m.features))) % 10]]
    ELSE [ok |-> FALSE, value |-> <<>>]

\* ------------------------------------------------------------ the payloads
\* the request bodies the host may deliver, as token sequences
Payloads == <<
  \* 1: {"data": [[1,2,3]]}
  <<"{", "\"data\"", ":", "[", "[", "1", ",", "2", ",", "3", "]", "]", "}">>,
  \* 2: {"x": 1, "data": [[1,2],[3,1]]}
  <<"{", "\"x\"", ":", "1", ",", "\"data\"", ":", "[", "[", "1", ",", "2", "]", ",",
    "[", "3", ",", "1", "]", "]", "}">>,
  \* 3: not json
  <<"not", "json">>,
  \* 4: "not json"             (a JSON string)
  <<"\"not json\"">>,
  \* 5: {"x": [[1,2,3]]}
  <<"{", "\"x\"", ":", "[", "[", "1", ",", "2", ",", "3", "]", "]", "}">>,
  \* 6: {"data": "a"}
  <<"{", "\"data\"", ":", "\"a\"", "}">>,
  \* 7: {"data": {"x": 1}}
  <<"{", "\"data\"", ":", "{", "\"x\"", ":", "1", "}", "}">>,
  \* 8: {"data": [["a","x","a"]]}
  <<"{", "\"data\"", ":", "[", "[", "\"a\"", ",", "\"x\"", ",", "\"a\"", "]", "]", "}">>,
  \* 9: {"data": [[1,2],[3]]}
  <<"{", "\"data\"", ":", "[", "[", "1", ",", "2", "]", ",", "[", "3", "]", "]", "}">> >>

PayloadIds == DOMAIN Payloads

\* ------------------------------------------------------ the lines of run()
\* how a call ends: a return value, or the stage that raised
NoOutcome == [kind |-> "none", stage |-> "none", value |-> <<>>]
Returned(value) == [kind |-> "return", stage |-> "none", value |-> value]
Raised(stage) == [kind |-> "raise", stage |-> stage, value |-> <<>>]

\* line 16, data = np.asarray(json.loads(raw_data)['data']): the array, or
\* the stage that raised
Line16(raw, b) ==
  LET j == json_loads(raw)
  IN  IF ~j.ok THEN [ok |-> FALSE, stage |-> "parse", arr |-> NoArray]
      ELSE LET d == Subscript(j.val, "data")
           IN  IF ~d.ok THEN [ok |-> FALSE, stage |-> "schema", arr |-> NoArray]
               ELSE LET a == asarray(d.val, b)
                    IN  IF ~a.ok
                          THEN [ok |-> FALSE, stage |-> "convert", arr |-> NoArray]
                          ELSE [ok |-> TRUE, stage |-> "none", arr |-> a.arr]

\* line 16 on every payload the host may deliver, by numpy build
Builds == {"legacy", "strict"}
RECURSIVE Line16Upto(_, _)
Line16Upto(b, n) ==
  IF n = 0 THEN <<>> ELSE Append(Line16Upto(b, n - 1), Line16(Payloads[n], b))
Line16Of ==
  [legacy |-> Line16Upto("legacy", Len(Payloads)),
   strict |-> Line16Upto("strict", Len(Payloads))]

\* a read that falls back to a default predictor while nothing is loaded
LoadGlobalDefault(g) ==
  IF g.kind = "absent" THEN [ok |-> TRUE, val |-> Predictor(3, 0)]
  ELSE [ok |-> TRUE, val |-> g]

\* line 17 reads the global `model`: a NameError while no init() has stored it
LoadGlobal(g) ==
  IF g.kind = "absent" THEN [ok |-> FALSE, val |-> Absent]
  ELSE [ok |-> TRUE, val |-> g]

\* a return that keeps only the first row of the prediction
ReturnFirstRow(r) ==
  IF r.ok THEN Returned(SubSeq(r.value, 1, 1)) ELSE Raised("predict")

\* line 17, return model.predict(data): the prediction as the predictor gives
\* it, or the predictor's own failure
ReturnValue(r) == IF r.ok THEN Returned(r.value) ELSE Raised("predict")

\* ------------------------------------------------------------------ state
VARIABLES
  model,     \* the module global `model`: Absent until init() stores it
  artifact,  \* the predictor the file 'model.h5' deserializes to
  build,     \* the numpy build: "legacy" or "strict" about ragged nestings
  pc,        \* per host thread: where it is in init() or run()
  op,        \* per host thread: the entry point it is in or was last in
  payload,   \* per host thread: the raw_data of its run() call (an id)
  path,      \* init() local model_path
  loaded,    \* init(): what load_model returned, not yet stored
  data,      \* run() local data
  handle,    \* run(): the value read from the global `model`
  outcome,   \* per host thread: how its last call ended
  invoked,   \* per host thread: the predict calls its run() call has made
  inits,     \* init() calls started
  okInits,   \* init() calls that returned
  failedInits, \* init() calls that raised
  writes     \* stores to the global `model`

vars == <<model, artifact, build, pc, op, payload, path, loaded, data, handle,
          outcome, invoked, inits, okInits, failedInits, writes>>

ModelPath == "azureml-models/model.h5"
NoPath == ""

Init ==
  /\ model = Absent
  /\ artifact \in Predictors
  /\ build \in Builds
  /\ pc = [t \in Threads |-> "idle"]
  /\ op = [t \in Threads |-> "none"]
  /\ payload = [t \in Threads |-> 0]
  /\ path = [t \in Threads |-> NoPath]
  /\ loaded = [t \in Threads |-> Absent]
  /\ data = [t \in Threads |-> NoArray]
  /\ handle = [t \in Threads |-> Absent]
  /\ outcome = [t \in Threads |-> NoOutcome]
  /\ invoked = [t \in Threads |-> <<>>]
  /\ inits = 0
  /\ okInits = 0
  /\ failedInits = 0
  /\ writes = 0

\* the call of thread t ends with outcome o; its locals die with the frame
Finish(t, o) ==
  /\ pc' = [pc EXCEPT ![t] = "done"]
  /\ outcome' = [outcome EXCEPT ![t] = o]
  /\ path' = [path EXCEPT ![t] = NoPath]
  /\ loaded' = [loaded EXCEPT ![t] = Absent]
  /\ data' = [data EXCEPT ![t] = NoArray]
  /\ handle' = [handle EXCEPT ![t] = Absent]

\* ------------------------------------------------------------------ init()
\* a lookup that publishes a half-built handle in the global before the load
InitGetModelPathPublishes(t) ==
  /\ pc[t] \in {"idle", "done"}
  /\ inits < MaxInits
  /\ inits' = inits + 1
  /\ op' = [op EXCEPT ![t] = "init"]
  /\ payload' = [payload EXCEPT ![t] = 0]
  /\ invoked' = [invoked EXCEPT ![t] = <<>>]
  /\ \E found \in BOOLEAN :
       IF found
         THEN /\ path' = [path EXCEPT ![t] = ModelPath]
              /\ pc' = [pc EXCEPT ![t] = "i13"]
              /\ outcome' = [outcome EXCEPT ![t] = NoOutcome]
              /\ model' = [kind |-> "partial", features |-> 0, w |-> 0]
              /\ writes' = writes + 1
              /\ UNCHANGED <<loaded, data, handle, failedInits>>
         ELSE /\ Finish(t, Raised("lookup"))
              /\ failedInits' = failedInits + 1
              /\ UNCHANGED <<model, writes>>
  /\ UNCHANGED <<artifact, build, okInits>>

\* the host calls init(); line 12, model_path = Model.get_model_path('model.h5'):
\* the registry knows the name, or the lookup raises
InitGetModelPath(t) ==
  /\ pc[t] \in {"idle", "done"}
  /\ inits < MaxInits
  /\ inits' = inits + 1
  /\ op' = [op EXCEPT ![t] = "init"]
  /\ payload' = [payload EXCEPT ![t] = 0]
  /\ invoked' = [invoked EXCEPT ![t] = <<>>]
  /\ \E found \in BOOLEAN :
       IF found
         THEN /\ path' = [path EXCEPT ![t] = ModelPath]
              /\ pc' = [pc EXCEPT ![t] = "i13"]
              /\ outcome' = [outcome EXCEPT ![t] = NoOutcome]
              /\ UNCHANGED <<loaded, data, handle, failedInits>>
         ELSE /\ Finish(t, Raised("lookup"))
              /\ failedInits' = failedInits + 1
  /\ UNCHANGED <<model, artifact, build, okInits, writes>>

\* a load that clears the global to a placeholder before it reads the file
InitLoadModelClearsFirst(t) ==
  /\ pc[t] = "i13"
  /\ model' = [kind |-> "placeholder", features |-> 0, w |-> 0]
  /\ writes' = writes + 1
  /\ \E readable \in BOOLEAN :
       IF readable
         THEN /\ loaded' = [loaded EXCEPT ![t] = artifact]
              /\ pc' = [pc EXCEPT ![t] = "i13s"]
              /\ UNCHANGED <<outcome, path, data, handle, failedInits>>
         ELSE /\ Finish(t, Raised("load"))
              /\ failedInits' = failedInits + 1
  /\ UNCHANGED <<artifact, build, op, payload, invoked, inits, okInits>>

\* line 13, load_model(model_path): the file deserializes to the artifact's predictor,
\* or the loader raises; the global is not touched yet
InitLoadModel(t) ==
  /\ pc[t] = "i13"
  /\ \E readable \in BOOLEAN :
       IF readable
         THEN /\ loaded' = [loaded EXCEPT ![t] = artifact]
              /\ pc' = [pc EXCEPT ![t] = "i13s"]
              /\ UNCHANGED <<outcome, path, data, handle, failedInits>>
         ELSE /\ Finish(t, Raised("load"))
              /\ failedInits' = failedInits + 1
  /\ UNCHANGED <<model, artifact, build, op, payload, invoked, inits, okInits, writes>>

\* line 13, model = <the loaded predictor>: the one store to the global, then return
InitStoreGlobal(t) ==
  /\ pc[t] = "i13s"
  /\ model' = loaded[t]
  /\ writes' = writes + 1
  /\ okInits' = okInits + 1
  /\ Finish(t, Returned(<<>>))
  /\ UNCHANGED <<artifact, build, op, payload, invoked, inits, failedInits>>

\* ------------------------------------------------------------------- run()
\* a line 16 that keeps data in a buffer shared by all threads
RunLine16SharedBuffer(t) ==
  /\ pc[t] \in {"idle", "done"}
  /\ op' = [op EXCEPT ![t] = "run"]
  /\ invoked' = [invoked EXCEPT ![t] = <<>>]
  /\ \E p \in PayloadIds :
       /\ payload' = [payload EXCEPT ![t] = p]
       /\ LET r == Line16Of[build][p]
          IN  IF r.ok
                THEN /\ data' = [u \in Threads |->
                                   IF u = t \/ pc[u] \in {"l17", "l17c"}
                                     THEN r.arr ELSE data[u]]
                     /\ pc' = [pc EXCEPT ![t] = "l17"]
                     /\ outcome' = [outcome EXCEPT ![t] = NoOutcome]
                     /\ UNCHANGED <<path, loaded, handle>>
                ELSE Finish(t, Raised(r.stage))
  /\ UNCHANGED <<model, artifact, build, inits, okInits, failedInits, writes>>

\* the host calls run(raw_data) with one of the payloads; line 16 runs on the
\* thread's own values
RunLine16(t) ==
  /\ pc[t] \in {"idle", "done"}
  /\ op' = [op EXCEPT ![t] = "run"]
  /\ invoked' = [invoked EXCEPT ![t] = <<>>]
  /\ \E p \in PayloadIds :
       /\ payload' = [payload EXCEPT ![t] = p]
       /\ LET r == Line16Of[build][p]
          IN  IF r.ok
                THEN /\ data' = [data EXCEPT ![t] = r.arr]
                     /\ pc' = [pc EXCEPT ![t] = "l17"]
                     /\ outcome' = [outcome EXCEPT ![t] = NoOutcome]
                     /\ UNCHANGED <<path, loaded, handle>>
                ELSE Finish(t, Raised(r.stage))
  /\ UNCHANGED <<model, artifact, build, inits, okInits, failedInits, writes>>

\* a read of the global that loads the model again on every request
RunLoadGlobalReloads(t) ==
  /\ pc[t] = "l17"
  /\ model' = artifact
  /\ writes' = writes + 1
  /\ handle' = [handle EXCEPT ![t] = artifact]
  /\ pc' = [pc EXCEPT ![t] = "l17c"]
  /\ UNCHANGED <<outcome, path, loaded, data>>
  /\ UNCHANGED <<artifact, build, op, payload, invoked, inits, okInits, failedInits>>

\* line 17, the read of the global `model`
RunLoadGlobal(t) ==
  /\ pc[t] = "l17"
  /\ LET g == LoadGlobal(model)
     IN  IF g.ok
           THEN /\ handle' = [handle EXCEPT ![t] = g.val]
                /\ pc' = [pc EXCEPT ![t] = "l17c"]
                /\ UNCHANGED <<outcome, path, loaded, data>>
           ELSE Finish(t, Raised("name"))
  /\ UNCHANGED <<model, artifact, build, op, payload, invoked,
                 inits, okInits, failedInits, writes>>

\* a predict call that also updates the predictor's weights
RunPredictTrains(t) ==
  /\ pc[t] = "l17c"
  /\ invoked' = [invoked EXCEPT ![t] = Append(@, [m |-> handle[t], x |-> data[t]])]
  /\ Finish(t, ReturnValue(predict(handle[t], data[t])))
  /\ model' = [model EXCEPT !.w = (@ + 1) % 4]
  /\ UNCHANGED <<artifact, build, op, payload, inits, okInits, failedInits, writes>>

\* line 17, the call model.predict(data) on the handle read, and the return
RunPredict(t) ==
  /\ pc[t] = "l17c"
  /\ invoked' = [invoked EXCEPT ![t] = Append(@, [m |-> handle[t], x |-> data[t]])]
  /\ Finish(t, ReturnValue(predict(handle[t], data[t])))
  /\ UNCHANGED <<model, artifact, build, op, payload,
                 inits, okInits, failedInits, writes>>

\* ---------------------------------------------------------- specifications
\* the host calls the entry points from any thread, in any order, init() at
\* most MaxInits times
Next ==
  \E t \in Threads :
    \/ InitGetModelPath(t)
    \/ InitLoadModel(t)
    \/ InitStoreGlobal(t)
    \/ RunLine16(t)
    \/ RunLoadGlobal(t)
    \/ RunPredict(t)

Spec == Init /\ [][Next]_vars

\* the host calls init() once, waits for it to end, then calls run() from its
\* threads
HostInit(t) == inits = 0 /\ InitGetModelPath(t)
HostRun(t) == okInits + failedInits = 1 /\ RunLine16(t)

NextHost ==
  \E t \in Threads :
    \/ HostInit(t)
    \/ InitLoadModel(t)
    \/ InitStoreGlobal(t)
    \/ HostRun(t)
    \/ RunLoadGlobal(t)
    \/ RunPredict(t)

SpecHost == Init /\ [][NextHost]_vars

\* ------------------------------------------------------- run() as a whole
\* what run() gives for payload p when it runs alone against the global g on
\* numpy build b
RunAlone(p, g, b) ==
  LET l == Line16Of[b][p]
  IN  IF ~l.ok THEN Raised(l.stage)
      ELSE LET h == LoadGlobal(g)
           IN  IF ~h.ok THEN Raised("name")
               ELSE ReturnValue(predict(h.val, l.arr))

\* ------------------------------------------------------------- properties
RunDone(t) == pc[t] = "done" /\ op[t] = "run"
InitDone(t) == pc[t] = "done" /\ op[t] = "init"

\* the payloads by kind, read off the request bodies themselves
ValidShape == {1, 2}       \* {"data": <nested numeric array>}
NotJson == {3}             \* not valid JSON
NoDataKey == {4, 5}        \* valid JSON without a data key
BadData == {6, 7, 8}       \* data is a string, an object, an array of strings
Ragged == {9}              \* data is a ragged nesting of numbers

\* the payloads json.loads accepts
Parses == {p \in PayloadIds : json_loads(Payloads[p]).ok}

\* the arrays the payloads' data fields denote, written out by hand
GoldenArray ==
  <<ndarray("int", <<1, 3>>, <<Num(1), Num(2), Num(3)>>),
    ndarray("int", <<2, 2>>, <<Num(1), Num(2), Num(3), Num(1)>>),
    NoArray, NoArray, NoArray,
    ndarray("str", <<>>, <<Str("a")>>),
    ndarray("object", <<>>, <<Obj(<<[key |-> "x", val |-> Num(1)]>>)>>),
    ndarray("str", <<1, 3>>, <<Str("a"), Str("x"), Str("a")>>),
    ndarray("object", <<2>>, <<Arr(<<Num(1), Num(2)>>), Arr(<<Num(3)>>)>>)>>

\* the outcome of handing array x to the loaded predictor directly
Direct(x) ==
  LET g == predict(artifact, x)
  IN  IF g.ok THEN [kind |-> "return", stage |-> "none", value |-> g.value]
      ELSE [kind |-> "raise", stage |-> "predict", value |-> <<>>]

\* C1: after init() has succeeded, a run() call with a payload of the shape
\* {"data": <nested numeric array>} invokes the loaded predictor exactly once,
\* with the array the data field denotes, and ends exactly as that predict
\* call ends: its output is returned unmodified.
C1_RunReturnsPrediction ==
  \A t \in Threads :
    (RunDone(t) /\ okInits = 1 /\ payload[t] \in ValidShape) =>
      /\ invoked[t] = <<[m |-> artifact, x |-> GoldenArray[payload[t]]]>>
      /\ outcome[t] = Direct(GoldenArray[payload[t]])

C1_Witness ==
  \E t \in Threads :
    /\ RunDone(t) /\ okInits = 1 /\ payload[t] = 2
    /\ artifact = Predictor(2, 3)
    /\ outcome[t] = [kind |-> "return", stage |-> "none", value |-> <<9, 2>>]

\* C2: a run() call that ends while no init() has stored the predictor ends in
\* a failure, for every payload, and has invoked no predictor.
C2_RunBeforeInitFails ==
  \A t \in Threads :
    (RunDone(t) /\ model = Absent) =>
      /\ outcome[t].kind = "raise"
      /\ invoked[t] = <<>>

C2_Witness ==
  \E t \in Threads, u \in Threads :
    /\ model = Absent
    /\ RunDone(t) /\ payload[t] = 1 /\ outcome[t] = Raised("name")
    /\ RunDone(u) /\ payload[u] = 3 /\ outcome[u] = Raised("parse")

\* C3: a run() call whose payload is not valid JSON fails at the parse stage,
\* and the predictor's predict was never invoked for it.
C3_MalformedJsonFailsAtParse ==
  \A t \in Threads :
    (RunDone(t) /\ payload[t] \in NotJson) =>
      /\ outcome[t] = Raised("parse")
      /\ invoked[t] = <<>>

C3_Witness ==
  \E t \in Threads :
    RunDone(t) /\ payload[t] \in NotJson /\ model = artifact /\ okInits = 1

\* C4: a run() call whose payload is valid JSON without a data key fails at
\* the schema stage (after the parse, before the predictor), and predict was
\* never invoked for it.
C4_MissingDataFailsAtSchema ==
  \A t \in Threads :
    (RunDone(t) /\ payload[t] \in NoDataKey) =>
      /\ payload[t] \in Parses
      /\ outcome[t] = Raised("schema")
      /\ invoked[t] = <<>>

C4_Witness ==
  \E t \in Threads :
    RunDone(t) /\ payload[t] = 5 /\ model = artifact /\ okInits = 1

\* C5, as claimed: after init() has succeeded, a run() call whose data field is
\* a string, an object or an array of strings fails in the hook itself (schema
\* or conversion stage), not in the predictor.
C5_BadDataFailsInHook ==
  \A t \in Threads :
    (RunDone(t) /\ okInits = 1 /\ payload[t] \in BadData) =>
      /\ outcome[t].kind = "raise"
      /\ outcome[t].stage \in {"schema", "convert"}
      /\ invoked[t] = <<>>

\* C5, amended: after init() has succeeded, a run() call whose data field is a
\* string, an object or an array of strings raises nothing in the hook: the
\* value is converted to an array, predict is invoked exactly once with it, and
\* the call ends as that predict call ends. Only a ragged nesting on a numpy
\* build that rejects it fails in the hook, at the conversion.
C5_BadDataReachesPredictor ==
  \A t \in Threads :
    (RunDone(t) /\ okInits = 1) =>
      /\ (payload[t] \in BadData \/ (payload[t] \in Ragged /\ build = "legacy")) =>
           /\ invoked[t] = <<[m |-> artifact, x |-> GoldenArray[payload[t]]]>>
           /\ outcome[t] = Direct(GoldenArray[payload[t]])
      /\ (payload[t] \in Ragged /\ build = "strict") =>
           /\ invoked[t] = <<>>
           /\ outcome[t] = Raised("convert")

C5_Witness ==
  \E t \in Threads, u \in Threads :
    /\ okInits = 1
    /\ RunDone(t) /\ payload[t] = 6 /\ outcome[t] = Raised("predict")
    /\ RunDone(u) /\ payload[u] = 8 /\ Len(invoked[u]) = 1

\* C6: when init() fails at the path lookup or at the load, the failure leaves
\* init() and the global is left unpopulated: a later run() ends as if init()
\* had never been called.
C6_FailedInitLeavesNoModel ==
  /\ okInits = 0 => (model = Absent /\ writes = 0)
  /\ \A t \in Threads :
       InitDone(t) => (outcome[t].kind = "raise" <=> failedInits = 1)
  /\ \A t \in Threads :
       (RunDone(t) /\ failedInits = 1) =>
         /\ outcome[t] = RunAlone(payload[t], Absent, build)
         /\ outcome[t].kind = "raise"

C6_Witness ==
  \E t \in Threads, u \in Threads :
    /\ t # u
    /\ InitDone(t) /\ outcome[t] = Raised("load")
    /\ RunDone(u) /\ payload[u] = 1 /\ outcome[u] = Raised("name")

\* C7: after a successful init(), two run() calls with the same payload end
\* the same way, whatever run() calls the other threads made before or
\* between them (a finished call's outcome stays with its thread while the
\* others go on calling).
C7_SamePayloadSameOutcome ==
  \A t \in Threads, u \in Threads :
    (RunDone(t) /\ RunDone(u) /\ okInits = 1 /\ payload[t] = payload[u]) =>
      outcome[t] = outcome[u]

C7_Witness ==
  \E t \in Threads, u \in Threads :
    /\ t # u /\ okInits = 1
    /\ RunDone(t) /\ RunDone(u)
    /\ payload[t] = 1 /\ payload[u] = 1
    /\ outcome[t].kind = "return"

\* C8, as claimed: whenever the host has called init() once and a run() call
\* has ended, the global handle has been written exactly once.
C8_WrittenExactlyOnce ==
  \A t \in Threads : RunDone(t) => writes = 1

\* the one step that changes the handle is init()'s store
StoreStep ==
  \E t \in Threads :
    /\ pc[t] = "i13s" /\ pc'[t] = "done"
    /\ model = Absent /\ model' = artifact
    /\ writes' = writes + 1

\* C8, amended: when the host calls init() once and it succeeds, the global
\* handle is written exactly once, by init()'s store, and every run() call
\* leaves it as it is; when that init() fails the handle is never written.
C8_WrittenOnceIfInitSucceeds ==
  /\ [](/\ okInits = 1 => (writes = 1 /\ model = artifact)
        /\ okInits = 0 => (writes = 0 /\ model = Absent))
  /\ [][(model' # model \/ writes' # writes) => StoreStep]_vars

C8_Witness ==
  \E t \in Threads, u \in Threads :
    /\ okInits = 1 /\ writes = 1
    /\ RunDone(t) /\ outcome[t].kind = "return"
    /\ RunDone(u) /\ outcome[u] = Raised("predict")

\* C9: with run() called from several threads after init() has succeeded,
\* every call reads the one loaded predictor and ends as it would end running
\* alone, whatever calls are in flight beside it.
C9_ConcurrentRunsAsAlone ==
  \A t \in Threads :
    /\ (pc[t] = "l17c" /\ okInits = 1) => handle[t] = artifact
    /\ (RunDone(t) /\ okInits = 1) =>
         outcome[t] = RunAlone(payload[t], artifact, build)

C9_Witness ==
  \E t \in Threads, u \in Threads :
    /\ t # u /\ okInits = 1
    /\ RunDone(t) /\ payload[t] = 1 /\ outcome[t].kind = "return"
    /\ pc[u] = "l17c" /\ payload[u] = 8

\* C10: when run() calls interleave with an init() in progress, a call either
\* fails because the global is absent or uses the fully loaded predictor: the
\* global holds nothing until the path lookup and the load are both done, and
\* then the predictor itself.
C10_NoPartialPredictor ==
  /\ model \in {Absent, artifact}
  /\ model = artifact => okInits >= 1
  /\ \A t \in Threads :
       /\ pc[t] = "l17c" => handle[t] = artifact
       /\ RunDone(t) =>
            outcome[t] \in {RunAlone(payload[t], Absent, build),
                            RunAlone(payload[t], artifact, build)}

C10_Witness ==
  \E t \in Threads, u \in Threads :
    /\ pc[t] = "i13s" /\ model = Absent
    /\ pc[u] = "l17" /\ payload[u] = 1

====
